---------------------------- MODULE Spec2Model ----------------------------
(***************************************************************************)
(* Model of waf_ml_integration.py: the WAFMLDetector classification path   *)
(* (model loading, feature extraction, the two detectors, the fusion of    *)
(* their outcomes into a verdict, the performance-log append) and the      *)
(* batch mode of main().                                                   *)
(*                                                                         *)
(* Numbers that are floats in the source (scores, thresholds, the 0.5      *)
(* filler features) are kept in hundredths: 0.5 is 50, 1.0 is 100.         *)
(***************************************************************************)
EXTENDS Integers, Sequences, FiniteSets, TLC

VARIABLES
    ddos_artifact,      \* the file at CONFIG['ddos_model_path']: "missing", "unreadable", "ok"
    sql_xss_artifact,   \* the file at CONFIG['sql_xss_model_path']: likewise
    pc,             \* per process: position in main() / analyze_request
    mode,           \* per process: "analyze" (batch mode) or "direct" (embedded calls)
    ddos_model,     \* per process: self.ddos_model, "None" or "loaded"
    sql_xss_model,  \* per process: self.sql_xss_model, "None" or "loaded"
    norm,           \* per process: self.sql_xss_mean and self.sql_xss_scale, once set
    evals,          \* per process: the detector evaluations of the call, in order (history)
    req,            \* per process: request_data of the call in progress
    results,        \* per process: the results dict of the call in progress
    fbuf,           \* per process: the open file object's unflushed buffer
    faults,         \* per process: which failures were injected into the call (history)
    status,         \* per process: the status line printed by main ("", "200", "403")
    exit_code,      \* per process: -1 while running, else the process exit code
    perf_log,       \* the performance log file: the sequence of write(2) payloads
    clock,          \* time.time(): a logical clock, advanced at every call
    xreq,           \* extractor harness: the request record under test
    xddos,          \* extractor harness: what extract_ddos_features returned
    xsql,           \* extractor harness: what extract_sql_xss_features returned
    xnorm,          \* extractor harness: the standardized sql/xss vector
    xdone           \* extractor harness: the steps that have been applied

vars == <<ddos_artifact, sql_xss_artifact, pc, mode, ddos_model, sql_xss_model, norm,
          evals, req, results, fbuf, faults, status, exit_code, perf_log, clock,
          xreq, xddos, xsql, xnorm, xdone>>

mainVars == <<ddos_artifact, sql_xss_artifact, pc, mode, ddos_model, sql_xss_model, norm,
              evals, req, results, fbuf, faults, status, exit_code, perf_log, clock>>

harnessVars == <<xreq, xddos, xsql, xnorm, xdone>>

----------------------------------------------------------------------------
(* Bounds *)

\* total number of analyze_request calls over all processes
MaxCalls == 2

\* how often the pattern of LongString is repeated
MaxRepeat == 12

\* the concurrently running processes, each one a WAFMLDetector: two, so that
\* two calls can overlap
Procs == {1, 2}

----------------------------------------------------------------------------
(* CONFIG and dimensions *)

ddos_threshold == 50

sql_xss_threshold == 50

DdosFeatureLen == 30

SqlXssFeatureLen == 15

FillerCount == 25

----------------------------------------------------------------------------
(* Python helpers *)

Min(a, b) == IF a < b THEN a ELSE b

\* s[:n]
Take(s, n) == SubSeq(s, 1, Min(n, Len(s)))

\* dict.get(key, default)
Get(d, key, default) == IF key \in DOMAIN d THEN d[key] ELSE default

\* n as a float, in hundredths
Fixed(n) == n * 100

UpperLetters == "ABCDEFGHIJKLMNOPQRSTUVWXYZ"

LowerLetters == "abcdefghijklmnopqrstuvwxyz"

LowerMap ==
    [c \in {SubSeq(UpperLetters, i, i) : i \in 1..Len(UpperLetters)} |->
        LET i == CHOOSE j \in 1..Len(UpperLetters) : SubSeq(UpperLetters, j, j) = c
        IN SubSeq(LowerLetters, i, i)]

LowerChar(c) == IF c \in DOMAIN LowerMap THEN LowerMap[c] ELSE c

\* str.lower(), character by character (split in halves to keep the
\* evaluation shallow)
RECURSIVE Lower(_)
Lower(s) ==
    IF Len(s) = 0 THEN s
    ELSE IF Len(s) = 1 THEN LowerChar(s)
    ELSE Lower(SubSeq(s, 1, Len(s) \div 2)) \o Lower(SubSeq(s, Len(s) \div 2 + 1, Len(s)))

\* the positions at which sub occurs in s
Occurrences(s, sub) ==
    { i \in 1..(Len(s) - Len(sub) + 1) : SubSeq(s, i, i + Len(sub) - 1) = sub }

\* sub in s
Contains(s, sub) == Occurrences(s, sub) # {}

\* the occurrences str.count counts among `occ` from position i on: it scans
\* left to right and resumes after the end of each occurrence it finds
RECURSIVE CountFrom(_, _, _)
CountFrom(occ, sublen, i) ==
    LET rest == { j \in occ : j >= i }
    IN IF rest = {} THEN 0
       ELSE LET first == CHOOSE j \in rest : \A k \in rest : j <= k
            IN 1 + CountFrom(occ, sublen, first + sublen)

\* s.count(sub), for a non-empty sub
Count(s, sub) == CountFrom(Occurrences(s, sub), Len(sub), 1)

----------------------------------------------------------------------------
(* Feature extraction *)

SuspiciousKeywords == {"sql", "xss", "script"}

\* the extractor without its filler dimensions
extract_ddos_features_no_filler(request_data) ==
    Take(<< Fixed(Len(Get(request_data, "uri", ""))),
            Fixed(Len(Get(request_data, "user_agent", ""))),
            Fixed(Get(request_data, "content_length", 0)),
            Fixed(Cardinality(Get(request_data, "headers", {}))),
            Fixed(Get(request_data, "connection_count", 1)) >>, 30)

\* the extractor had a missing connection_count counted as 0
extract_ddos_features_default_zero(request_data) ==
    LET features ==
            << Fixed(Len(Get(request_data, "uri", ""))),
               Fixed(Len(Get(request_data, "user_agent", ""))),
               Fixed(Get(request_data, "content_length", 0)),
               Fixed(Cardinality(Get(request_data, "headers", {}))),
               Fixed(Get(request_data, "connection_count", 0)) >>
            \o [i \in 1..FillerCount |-> 50]
    IN Take(features, 30)

extract_ddos_features(request_data) ==
    LET features ==
            << Fixed(Len(Get(request_data, "uri", ""))),
               Fixed(Len(Get(request_data, "user_agent", ""))),
               Fixed(Get(request_data, "content_length", 0)),
               Fixed(Cardinality(Get(request_data, "headers", {}))),
               Fixed(Get(request_data, "connection_count", 1)) >>
            \o [i \in 1..FillerCount |-> 50]
    IN Take(features, 30)

extract_sql_xss_features(request_data) ==
    LET uri == Get(request_data, "uri", "")
        query_string == Get(request_data, "query_string", "")
        post_data == Get(request_data, "post_data", "")
        combined_input == uri \o " " \o query_string \o " " \o post_data
        features ==
            << Fixed(Len(combined_input)),
               Fixed(Count(combined_input, "'")),
               Fixed(Count(combined_input, "\"")),
               Fixed(Count(combined_input, "--")),
               Fixed(Count(combined_input, "UNION")),
               Fixed(Count(combined_input, "SELECT")),
               Fixed(Count(combined_input, "INSERT")),
               Fixed(Count(combined_input, "DELETE")),
               Fixed(Count(combined_input, "<script>")),
               Fixed(Count(combined_input, "javascript:")),
               Fixed(Count(combined_input, "onload=")),
               Fixed(Count(combined_input, "alert(")),
               Fixed(IF \E x \in SuspiciousKeywords : Contains(Lower(combined_input), x)
                     THEN 1 ELSE 0),
               Fixed(Len(query_string)),
               Fixed(Len(post_data)) >>
    IN Take(features, 15)

----------------------------------------------------------------------------
(* Requests *)

\* a benign request and one carrying injection markers
SampleBenign ==
    [uri |-> "/", query_string |-> "id=1", user_agent |-> "UA",
     headers |-> {"Host"}, content_length |-> 0, connection_count |-> 1,
     post_data |-> ""]

SampleInjection ==
    [uri |-> "/", query_string |-> "1'--", user_agent |-> "UA",
     headers |-> {"Host"}, content_length |-> 3, connection_count |-> 1,
     post_data |-> "XSS"]

\* {}
EmptyDict == [k \in {} |-> 0]

\* request records handed to analyze_request by an embedding caller
RequestRecords == {SampleBenign, SampleInjection}

\* a value json.loads returned (or failed to): a dict, another JSON value, or no value
JsonDict(d) == [kind |-> "dict", d |-> d]

JsonList == [kind |-> "list"]

Unparsable == [kind |-> "unparsable"]

NoRequest == [kind |-> "none"]

\* what batch mode may read from stdin
StdinInputs == {Unparsable, JsonList, JsonDict(SampleInjection)}

\* request_data.get(...) raises AttributeError on a value that is not a dict
GetRaises(request_data) == request_data.kind # "dict"

----------------------------------------------------------------------------
(* Normalization *)

\* self.sql_xss_mean, in hundredths
sql_xss_mean ==
    << 53559758, 5424800, 55232800, 55232800, 93986172,
       40120085, 41628184, 42571176, 44536596, 44860463,
       51985086, 45475503, 100, 51277262, 55232800 >>

\* self.sql_xss_scale, in hundredths
sql_xss_scale ==
    << 27766780, 100, 100, 100, 7602901,
       26222514, 27444145, 27301626, 29100887, 28393366,
       26779249, 27082382, 0, 27908991, 100 >>

\* the attributes __init__ sets after load_models
Tables == [mean |-> sql_xss_mean, scale |-> sql_xss_scale]

\* the attributes before __init__ has set them
NoTables == [mean |-> << >>, scale |-> << >>]

\* a / b as the exact quotient; a quotient with den = 0 is a ZeroDivisionError
Div(a, b) == [num |-> a, den |-> b]

\* the int 0
Zero == [num |-> 0, den |-> 1]

Min3(a, b, c) == Min(a, Min(b, c))

\* the standardization without its test of the scale
StandardizeUnguarded(features, mean, scale) ==
    [i \in 1..Min3(Len(features), Len(mean), Len(scale)) |->
        Div(features[i] - mean[i], scale[i])]

\* "Standardize features": one value per triple of zip(features, mean, scale)
Standardize(features, mean, scale) ==
    [i \in 1..Min3(Len(features), Len(mean), Len(scale)) |->
        IF scale[i] # 0 THEN Div(features[i] - mean[i], scale[i]) ELSE Zero]

\* whether computing the standardized list raises
StandardizeRaises(features, mean, scale) ==
    \E i \in DOMAIN Standardize(features, mean, scale) :
        Standardize(features, mean, scale)[i].den = 0

----------------------------------------------------------------------------
(* The detectors *)

\* values model.predict may return, in hundredths
Predictions == {0, 50, 100}

Outcome(triggered, score) == [triggered |-> triggered, score |-> score]

\* detect_ddos: `except Exception` handler
DdosOnError == Outcome(TRUE, 100)

\* the handler had it allowed the request
SqlXssOnErrorFailOpen == Outcome(FALSE, 0)

\* detect_sql_xss: `except Exception` handler
SqlXssOnError == Outcome(TRUE, 100)

\* detect_ddos had it compared with >=
detect_ddos_at_least(model, request_data, predict_raises, prediction) ==
    IF model = "None" THEN Outcome(FALSE, 0)
    ELSE IF GetRaises(request_data) THEN DdosOnError
    ELSE IF Len(extract_ddos_features(request_data.d)) # DdosFeatureLen
         THEN Outcome(TRUE, 100)
    ELSE IF predict_raises THEN DdosOnError
    ELSE Outcome(prediction >= ddos_threshold, prediction)

\* detect_ddos(request_data), given whether predict raises and what it returns
detect_ddos(model, request_data, predict_raises, prediction) ==
    IF model = "None" THEN Outcome(FALSE, 0)
    ELSE IF GetRaises(request_data) THEN DdosOnError
    ELSE IF Len(extract_ddos_features(request_data.d)) # DdosFeatureLen
         THEN Outcome(TRUE, 100)
    ELSE IF predict_raises THEN DdosOnError
    ELSE Outcome(prediction > ddos_threshold, prediction)

\* detect_sql_xss(request_data), given the tables of the detector, whether
\* predict raises and what it returns
detect_sql_xss(model, tables, request_data, predict_raises, prediction) ==
    IF model = "None" THEN Outcome(FALSE, 0)
    ELSE IF GetRaises(request_data) THEN SqlXssOnError
    ELSE LET features == extract_sql_xss_features(request_data.d)
         IN IF Len(features) # SqlXssFeatureLen THEN Outcome(TRUE, 100)
            ELSE IF StandardizeRaises(features, tables.mean, tables.scale)
                 THEN SqlXssOnError
            ELSE IF predict_raises THEN SqlXssOnError
            ELSE Outcome(prediction > sql_xss_threshold, prediction)

\* the way detect_ddos is left: by the test of the model ("no_model"), by the
\* test of the length ("invalid_length"), by the handler ("error") or by the
\* return after scoring ("scored")
ddos_path(model, request_data, predict_raises) ==
    IF model = "None" THEN "no_model"
    ELSE IF GetRaises(request_data) THEN "error"
    ELSE IF Len(extract_ddos_features(request_data.d)) # DdosFeatureLen
         THEN "invalid_length"
    ELSE IF predict_raises THEN "error"
    ELSE "scored"

\* the way detect_sql_xss is left
sql_xss_path(model, tables, request_data, predict_raises) ==
    IF model = "None" THEN "no_model"
    ELSE IF GetRaises(request_data) THEN "error"
    ELSE LET features == extract_sql_xss_features(request_data.d)
         IN IF Len(features) # SqlXssFeatureLen THEN "invalid_length"
            ELSE IF StandardizeRaises(features, tables.mean, tables.scale) THEN "error"
            ELSE IF predict_raises THEN "error"
            ELSE "scored"

\* the record of one detector evaluation: the detector, the way it was left,
\* what it returned and, when the model scored, what predict returned
Evaluation(detector, path, outcome, prediction) ==
    IF path = "scored"
    THEN [detector |-> detector, path |-> path, outcome |-> outcome,
          prediction |-> prediction]
    ELSE [detector |-> detector, path |-> path, outcome |-> outcome]

\* whether the call of the detector failed inside its try block
DetectorFailed(model, request_data, predict_raises) ==
    model # "None" /\ (GetRaises(request_data) \/ predict_raises)

\* every way one call of detect_ddos can go: what it returns, whether it
\* failed inside its try block, and the record of the evaluation
DdosCalls(model, request_data) ==
    { [outcome |-> detect_ddos(model, request_data, predict_raises, prediction),
       failed |-> DetectorFailed(model, request_data, predict_raises),
       eval |-> Evaluation("ddos", ddos_path(model, request_data, predict_raises),
                           detect_ddos(model, request_data, predict_raises, prediction),
                           prediction)] :
      predict_raises \in BOOLEAN, prediction \in Predictions }

\* every way one call of detect_sql_xss can go
SqlXssCalls(model, tables, request_data) ==
    { [outcome |-> detect_sql_xss(model, tables, request_data, predict_raises,
                                  prediction),
       failed |-> DetectorFailed(model, request_data, predict_raises),
       eval |-> Evaluation("sql_xss",
                           sql_xss_path(model, tables, request_data, predict_raises),
                           detect_sql_xss(model, tables, request_data, predict_raises,
                                          prediction),
                           prediction)] :
      predict_raises \in BOOLEAN, prediction \in Predictions }

----------------------------------------------------------------------------
(* analyze_request *)

Reasons == {"allowed", "ddos_attack", "sql_xss_attack", "analysis_error"}

\* the results dict as analyze_request builds it first
InitialResults(now) ==
    [timestamp |-> now, processing_time |-> 0, blocked |-> FALSE,
     ddos_detected |-> FALSE, sql_xss_detected |-> FALSE,
     ddos_score |-> 0, sql_xss_score |-> 0, reason |-> "allowed"]

NoFaults == [ddos |-> FALSE, sql_xss |-> FALSE, audit |-> FALSE]

\* "Determine final decision"
\* the decision had the injection detector been looked at first
FinalDecisionInjectionFirst(r, ddos_blocked, sql_xss_blocked) ==
    IF sql_xss_blocked THEN [r EXCEPT !.blocked = TRUE, !.reason = "sql_xss_attack"]
    ELSE IF ddos_blocked THEN [r EXCEPT !.blocked = TRUE, !.reason = "ddos_attack"]
    ELSE r

FinalDecision(r, ddos_blocked, sql_xss_blocked) ==
    IF ddos_blocked THEN [r EXCEPT !.blocked = TRUE, !.reason = "ddos_attack"]
    ELSE IF sql_xss_blocked THEN [r EXCEPT !.blocked = TRUE, !.reason = "sql_xss_attack"]
    ELSE r

\* the handler had it re-raised
OnAnalysisErrorReraise(r, now) == [next |-> "raised", results |-> r]

\* analyze_request's `except Exception` handler: the call still returns results
OnAnalysisError(r, now) ==
    [next |-> "returned",
     results |-> [r EXCEPT !.blocked = TRUE, !.reason = "analysis_error",
                           !.processing_time = now - r.timestamp]]

\* str(bool) as the f-string prints it
PyStr(b) == IF b THEN "True" ELSE "False"

\* the line written to the performance log
FormatLine(r) ==
    [timestamp |-> r.timestamp, processing_time |-> r.processing_time,
     blocked |-> PyStr(r.blocked), part |-> "line"]

\* the append had the write been left out
WriteChunksNone(line) == << >>

\* the append had the file been unbuffered and the line written in two pieces
WriteChunksUnbuffered(line) ==
    << [line EXCEPT !.part = "head"], [line EXCEPT !.part = "tail"] >>

\* the write(2) calls one append makes: the line is buffered by f.write and
\* flushed whole when the with block closes the file (opened in append mode)
WriteChunks(line) == << line >>

----------------------------------------------------------------------------
(* Process start: WAFMLDetector.__init__ and load_models *)

ArtifactStates == {"missing", "unreadable", "ok"}

\* os.path.exists(path)
Exists(artifact) == artifact # "missing"

\* load_models: the handles it leaves, and whether it called sys.exit(1).
\* load_model raises on an artifact it cannot read; a path that does not
\* exist is skipped.
load_models(ddos_art, sql_xss_art) ==
    IF Exists(ddos_art) /\ ddos_art = "unreadable"
    THEN [exited |-> TRUE, ddos_model |-> "None", sql_xss_model |-> "None"]
    ELSE IF Exists(sql_xss_art) /\ sql_xss_art = "unreadable"
    THEN [exited |-> TRUE,
          ddos_model |-> IF Exists(ddos_art) THEN "loaded" ELSE "None",
          sql_xss_model |-> "None"]
    ELSE [exited |-> FALSE,
          ddos_model |-> IF Exists(ddos_art) THEN "loaded" ELSE "None",
          sql_xss_model |-> IF Exists(sql_xss_art) THEN "loaded" ELSE "None"]

\* detector = WAFMLDetector()
Construct(p) ==
    /\ pc[p] = "start"
    /\ LET l == load_models(ddos_artifact, sql_xss_artifact)
       IN /\ ddos_model' = [ddos_model EXCEPT ![p] = l.ddos_model]
          /\ sql_xss_model' = [sql_xss_model EXCEPT ![p] = l.sql_xss_model]
          /\ norm' = [norm EXCEPT ![p] = IF l.exited THEN NoTables ELSE Tables]
          /\ pc' = [pc EXCEPT ![p] = IF l.exited THEN "aborted" ELSE "ready"]
          /\ exit_code' = [exit_code EXCEPT ![p] = IF l.exited THEN 1 ELSE -1]
    /\ UNCHANGED <<ddos_artifact, sql_xss_artifact, mode, evals, req, results, fbuf,
                   faults, status, perf_log, clock>>
    /\ UNCHANGED harnessVars

----------------------------------------------------------------------------
(* analyze_request *)

\* the attributes had a call dropped the handle of the injection model
self_after_analyze_unloads(self) == [self EXCEPT !.sql_xss_model = "None"]

\* the attributes of the detector after a call of analyze_request, which
\* assigns none of them
self_after_analyze(self) == self

\* the evaluations had a triggered volumetric detector ended the checks
EvaluationsShortCircuit(d, x) ==
    IF d.outcome.triggered THEN << d.eval >> ELSE << d.eval, x.eval >>

\* "Check DDoS", then "Check SQL/XSS": the evaluations one call makes of the
\* two detectors, d and x being the way each goes
Evaluations(d, x) == << d.eval, x.eval >>

\* results after the detected flag and the score of each evaluation have been
\* stored in it, in order
RECURSIVE Record(_, _)
Record(r, es) ==
    IF es = << >> THEN r
    ELSE LET e == Head(es)
             r1 == IF e.detector = "ddos"
                   THEN [r EXCEPT !.ddos_detected = e.outcome.triggered,
                                  !.ddos_score = e.outcome.score]
                   ELSE [r EXCEPT !.sql_xss_detected = e.outcome.triggered,
                                  !.sql_xss_score = e.outcome.score]
         IN Record(r1, Tail(es))

\* analyze_request up to the buffered f.write: start_time and
\* results['timestamp'] are read from the clock, which has advanced since the
\* previous call; then "Check DDoS", "Check SQL/XSS", "Determine final
\* decision", the processing time, and the open of the performance log, which
\* may raise. Nothing here touches state shared with another call.
Analyze(p, request_data) ==
    /\ clock < MaxCalls
    /\ clock' = clock + 1
    /\ req' = [req EXCEPT ![p] = request_data]
    /\ LET self == self_after_analyze([ddos_model |-> ddos_model[p],
                                       sql_xss_model |-> sql_xss_model[p],
                                       norm |-> norm[p]])
       IN /\ ddos_model' = [ddos_model EXCEPT ![p] = self.ddos_model]
          /\ sql_xss_model' = [sql_xss_model EXCEPT ![p] = self.sql_xss_model]
          /\ norm' = [norm EXCEPT ![p] = self.norm]
    /\ \E d \in DdosCalls(ddos_model[p], request_data),
          x \in SqlXssCalls(sql_xss_model[p], norm[p], request_data),
          open_raises \in BOOLEAN :
         LET now == clock + 1
             es == Evaluations(d, x)
             r2 == Record(InitialResults(now), es)
             decided == [FinalDecision(r2, r2.ddos_detected, r2.sql_xss_detected)
                            EXCEPT !.processing_time = now - r2.timestamp]
             f == [ddos |-> d.failed, sql_xss |-> x.failed, audit |-> open_raises]
         IN /\ faults' = [faults EXCEPT ![p] = f]
            /\ evals' = [evals EXCEPT ![p] = es]
            /\ IF open_raises
               THEN LET h == OnAnalysisError(decided, now)
                    IN /\ results' = [results EXCEPT ![p] = h.results]
                       /\ pc' = [pc EXCEPT ![p] = h.next]
                       /\ fbuf' = fbuf
               ELSE /\ results' = [results EXCEPT ![p] = decided]
                    /\ fbuf' = [fbuf EXCEPT ![p] = WriteChunks(FormatLine(decided))]
                    /\ pc' = [pc EXCEPT ![p] = "close"]

\* leaving the with block: the buffer is flushed, one write(2) per step, each
\* appended at the end of the file (O_APPEND); a write may raise, and then
\* nothing of it reaches the file
Close(p) ==
    /\ pc[p] = "close"
    /\ IF fbuf[p] = << >>
       THEN /\ pc' = [pc EXCEPT ![p] = "returned"]
            /\ UNCHANGED <<results, fbuf, faults, perf_log>>
       ELSE \E write_raises \in BOOLEAN :
            IF write_raises
            THEN LET h == OnAnalysisError(results[p], clock)
                 IN /\ results' = [results EXCEPT ![p] = h.results]
                    /\ pc' = [pc EXCEPT ![p] = h.next]
                    /\ faults' = [faults EXCEPT ![p].audit = TRUE]
                    /\ fbuf' = [fbuf EXCEPT ![p] = << >>]
                    /\ perf_log' = perf_log
            ELSE /\ perf_log' = Append(perf_log, Head(fbuf[p]))
                 /\ fbuf' = [fbuf EXCEPT ![p] = Tail(fbuf[p])]
                 /\ pc' = [pc EXCEPT ![p] =
                              IF Tail(fbuf[p]) = << >> THEN "returned" ELSE "close"]
                 /\ UNCHANGED <<results, faults>>
    /\ UNCHANGED <<ddos_artifact, sql_xss_artifact, mode, ddos_model, sql_xss_model,
                   norm, evals, req, status, exit_code, clock>>
    /\ UNCHANGED harnessVars

----------------------------------------------------------------------------
(* Callers *)

\* an embedding service (or main's test mode) calls analyze_request
DirectCall(p) ==
    /\ pc[p] = "ready"
    /\ mode[p] = "direct"
    /\ \E r \in RequestRecords : Analyze(p, JsonDict(r))
    /\ UNCHANGED <<ddos_artifact, sql_xss_artifact, mode, status, exit_code, perf_log>>
    /\ UNCHANGED harnessVars

\* the embedding caller consumes the verdict
DirectReturn(p) ==
    /\ pc[p] = "returned"
    /\ mode[p] = "direct"
    /\ pc' = [pc EXCEPT ![p] = "ready"]
    /\ req' = [req EXCEPT ![p] = NoRequest]
    /\ results' = [results EXCEPT ![p] = InitialResults(0)]
    /\ faults' = [faults EXCEPT ![p] = NoFaults]
    /\ evals' = [evals EXCEPT ![p] = << >>]
    /\ UNCHANGED <<ddos_artifact, sql_xss_artifact, mode, ddos_model, sql_xss_model,
                   norm, fbuf, status, exit_code, perf_log, clock>>
    /\ UNCHANGED harnessVars

\* batch mode had it exited 0 whatever the verdict
BatchOutputExitZero(blocked) ==
    IF blocked THEN [status |-> "403", exit_code |-> 0]
    ELSE [status |-> "200", exit_code |-> 0]

\* what batch mode prints and exits with for a verdict
BatchOutput(blocked) ==
    IF blocked THEN [status |-> "403", exit_code |-> 1]
    ELSE [status |-> "200", exit_code |-> 0]

\* what batch mode prints and exits with in its `except Exception` handler
BatchOnError == [status |-> "403", exit_code |-> 1]

\* main, mode "analyze": read stdin and json.loads it, then call analyze_request
BatchRead(p) ==
    /\ pc[p] = "ready"
    /\ mode[p] = "analyze"
    /\ \E input \in StdinInputs :
         IF input = Unparsable
         THEN /\ req' = [req EXCEPT ![p] = input]
              /\ status' = [status EXCEPT ![p] = BatchOnError.status]
              /\ exit_code' = [exit_code EXCEPT ![p] = BatchOnError.exit_code]
              /\ pc' = [pc EXCEPT ![p] = "exited"]
              /\ UNCHANGED <<ddos_model, sql_xss_model, norm, evals, results, faults,
                             clock, fbuf>>
         ELSE /\ Analyze(p, input)
              /\ UNCHANGED <<status, exit_code>>
    /\ UNCHANGED <<ddos_artifact, sql_xss_artifact, mode, perf_log>>
    /\ UNCHANGED harnessVars

\* main, mode "analyze": "Output decision"
BatchEmit(p) ==
    /\ pc[p] = "returned"
    /\ mode[p] = "analyze"
    /\ LET out == BatchOutput(results[p].blocked)
       IN /\ status' = [status EXCEPT ![p] = out.status]
          /\ exit_code' = [exit_code EXCEPT ![p] = out.exit_code]
    /\ pc' = [pc EXCEPT ![p] = "exited"]
    /\ UNCHANGED <<ddos_artifact, sql_xss_artifact, mode, ddos_model, sql_xss_model,
                   norm, evals, req, results, fbuf, faults, perf_log, clock>>
    /\ UNCHANGED harnessVars

----------------------------------------------------------------------------
(* Specification of the running processes *)

HarnessIdle ==
    /\ xreq = EmptyDict
    /\ xddos = << >>
    /\ xsql = << >>
    /\ xnorm = << >>
    /\ xdone = {}

Init ==
    /\ ddos_artifact \in ArtifactStates
    /\ sql_xss_artifact \in ArtifactStates
    /\ pc = [p \in Procs |-> "start"]
    /\ mode \in [Procs -> {"analyze", "direct"}]
    /\ ddos_model = [p \in Procs |-> "None"]
    /\ sql_xss_model = [p \in Procs |-> "None"]
    /\ norm = [p \in Procs |-> NoTables]
    /\ evals = [p \in Procs |-> << >>]
    /\ req = [p \in Procs |-> NoRequest]
    /\ results = [p \in Procs |-> InitialResults(0)]
    /\ fbuf = [p \in Procs |-> << >>]
    /\ faults = [p \in Procs |-> NoFaults]
    /\ status = [p \in Procs |-> ""]
    /\ exit_code = [p \in Procs |-> -1]
    /\ perf_log = << >>
    /\ clock = 0
    /\ HarnessIdle

Next ==
    \E p \in Procs :
        \/ Construct(p)
        \/ DirectCall(p)
        \/ BatchRead(p)
        \/ Close(p)
        \/ DirectReturn(p)
        \/ BatchEmit(p)

Spec == Init /\ [][Next]_vars

----------------------------------------------------------------------------
(* The extractors applied to request records of every shape *)

\* pattern * n
RECURSIVE Repeat(_, _)
Repeat(pattern, n) == IF n = 0 THEN "" ELSE pattern \o Repeat(pattern, n - 1)

\* a long string full of markers
LongString == Repeat("' UNION SELECT--<script>alert(", MaxRepeat)

\* each field is missing, empty, ordinary or very long
UriChoices == {EmptyDict, "uri" :> "", "uri" :> "/login.php", "uri" :> LongString}

QueryStringChoices ==
    {EmptyDict, "query_string" :> "", "query_string" :> "id=1' OR '1'='1",
     "query_string" :> LongString}

PostDataChoices ==
    {EmptyDict, "post_data" :> "", "post_data" :> "<script>alert('xss')</script>"}

UserAgentChoices == {EmptyDict, "user_agent" :> "Mozilla/5.0"}

HeadersChoices == {EmptyDict, "headers" :> {}, "headers" :> {"Host", "Accept"}}

ContentLengthChoices == {EmptyDict, "content_length" :> 100}

ConnectionCountChoices == {EmptyDict, "connection_count" :> 1000}

ExtractInputs ==
    { u @@ q @@ b @@ a @@ h @@ l @@ c :
        u \in UriChoices, q \in QueryStringChoices, b \in PostDataChoices,
        a \in UserAgentChoices, h \in HeadersChoices, l \in ContentLengthChoices,
        c \in ConnectionCountChoices }

MainIdle ==
    /\ ddos_artifact = "ok"
    /\ sql_xss_artifact = "ok"
    /\ pc = [p \in Procs |-> "start"]
    /\ mode = [p \in Procs |-> "direct"]
    /\ ddos_model = [p \in Procs |-> "None"]
    /\ sql_xss_model = [p \in Procs |-> "None"]
    /\ norm = [p \in Procs |-> NoTables]
    /\ evals = [p \in Procs |-> << >>]
    /\ req = [p \in Procs |-> NoRequest]
    /\ results = [p \in Procs |-> InitialResults(0)]
    /\ fbuf = [p \in Procs |-> << >>]
    /\ faults = [p \in Procs |-> NoFaults]
    /\ status = [p \in Procs |-> ""]
    /\ exit_code = [p \in Procs |-> -1]
    /\ perf_log = << >>
    /\ clock = 0

InitExtract ==
    /\ MainIdle
    /\ xreq \in ExtractInputs
    /\ xddos = << >>
    /\ xsql = << >>
    /\ xnorm = << >>
    /\ xdone = {}

ExtractDdos ==
    /\ "ddos" \notin xdone
    /\ xddos' = extract_ddos_features(xreq)
    /\ xdone' = xdone \cup {"ddos"}
    /\ UNCHANGED <<xreq, xsql, xnorm>>
    /\ UNCHANGED mainVars

ExtractSqlXss ==
    /\ "sql_xss" \notin xdone
    /\ xsql' = extract_sql_xss_features(xreq)
    /\ xdone' = xdone \cup {"sql_xss"}
    /\ UNCHANGED <<xreq, xddos, xnorm>>
    /\ UNCHANGED mainVars

\* the standardization of detect_sql_xss applied to the extracted vector
StandardizeSqlXss ==
    /\ "sql_xss" \in xdone
    /\ "standardize" \notin xdone
    /\ xnorm' = Standardize(xsql, sql_xss_mean, sql_xss_scale)
    /\ xdone' = xdone \cup {"standardize"}
    /\ UNCHANGED <<xreq, xddos, xsql>>
    /\ UNCHANGED mainVars

NextExtract == ExtractDdos \/ ExtractSqlXss \/ StandardizeSqlXss

SpecExtract == InitExtract /\ [][NextExtract]_vars

----------------------------------------------------------------------------
(* Properties *)

Returned(p) == pc[p] = "returned"

\* the (blocked, reason) the fusion rule gives for two detector flags
Fused(ddos_blocked, sql_xss_blocked) ==
    FinalDecision(InitialResults(0), ddos_blocked, sql_xss_blocked)

\* the entries of the performance log that carry the timestamp ts
LinesOf(ts) == { i \in DOMAIN perf_log : perf_log[i].timestamp = ts }

\* C1: whenever analyze_request returns a verdict for a request on which both
\* the ddos detector and the sql/xss detector triggered, the verdict is
\* blocked with reason ddos_attack.
C1_VolumetricWins ==
    \A p \in Procs :
        (Returned(p) /\ results[p].ddos_detected /\ results[p].sql_xss_detected)
            => (results[p].blocked /\ results[p].reason = "ddos_attack")

\* C2: a detector whose extraction or scoring call failed has reported
\* (triggered, 1.0), the failure has not become an analysis error of the call,
\* and the verdict of the call is blocked.
C2_FailClosed ==
    \A p \in Procs :
        pc[p] \in {"close", "returned"} =>
            /\ faults[p].ddos =>
                  (results[p].ddos_detected /\ results[p].ddos_score = 100)
            /\ faults[p].sql_xss =>
                  (results[p].sql_xss_detected /\ results[p].sql_xss_score = 100)
            /\ (faults[p].ddos \/ faults[p].sql_xss) =>
                  /\ results[p].blocked
                  /\ faults[p].audit \/ results[p].reason \in {"ddos_attack", "sql_xss_attack"}

\* a call in which only the sql/xss detector failed has returned
C2_Witness ==
    \E p \in Procs :
        /\ Returned(p)
        /\ faults[p].sql_xss /\ ~faults[p].ddos /\ ~faults[p].audit
        /\ ~results[p].ddos_detected
        /\ results[p].reason = "sql_xss_attack"

\* C3: when the append to the performance log fails, the verdict returned has
\* the blocked flag and the reason it has when the append succeeds, which are
\* those the fusion rule gives for the two detector outcomes.
C3_AuditFailureKeepsVerdict ==
    \A p \in Procs :
        (Returned(p) /\ faults[p].audit) =>
            LET v == Fused(results[p].ddos_detected, results[p].sql_xss_detected)
            IN results[p].blocked = v.blocked /\ results[p].reason = v.reason

\* C4: a process that has left its load phase with a model artifact missing or
\* unreadable has aborted, so every process that serves requests holds both
\* model handles.
C4_LoadFailureAborts ==
    \A p \in Procs :
        /\ (pc[p] # "start" /\ (ddos_artifact # "ok" \/ sql_xss_artifact # "ok"))
              => pc[p] = "aborted"
        /\ pc[p] \in {"ready", "close", "returned", "exited"}
              => (ddos_model[p] = "loaded" /\ sql_xss_model[p] = "loaded")

\* C5: no error of the classification path leaves analyze_request as an
\* exception: a call that is under way can always take its next step, and it
\* ends returned with a verdict whose reason is one of the four.
C5_AlwaysAVerdict ==
    \A p \in Procs :
        /\ pc[p] \in {"start", "aborted", "ready", "close", "returned", "exited"}
        /\ pc[p] = "close" => ENABLED Close(p)
        /\ Returned(p) =>
              (results[p].reason \in Reasons /\ results[p].blocked \in BOOLEAN)

\* a call in which a detector failed and the append failed has returned
C5_Witness ==
    \E p \in Procs :
        /\ Returned(p)
        /\ faults[p].audit /\ faults[p].ddos
        /\ results[p].reason = "analysis_error"

\* C6: a batch-mode process prints nothing before it ends; it ends with "200"
\* and exit code 0 exactly when the verdict is not blocked, with "403" and a
\* non-zero exit code when the verdict is blocked, and with "403" and a
\* non-zero exit code when its input could not be parsed.
C6_BatchStatus ==
    \A p \in Procs :
        /\ pc[p] \in {"ready", "close", "returned"} => (status[p] = "" /\ exit_code[p] = -1)
        /\ pc[p] = "exited" =>
              IF req[p] = Unparsable
              THEN status[p] = "403" /\ exit_code[p] > 0
              ELSE \/ ~results[p].blocked /\ status[p] = "200" /\ exit_code[p] = 0
                   \/ results[p].blocked /\ status[p] = "403" /\ exit_code[p] > 0

\* one batch process has ended on an allowed verdict, another on a blocked one
C6_Witness ==
    \E p, q \in Procs :
        /\ pc[p] = "exited" /\ status[p] = "200" /\ results[p].reason = "allowed"
        /\ pc[q] = "exited" /\ status[q] = "403" /\ results[q].reason = "sql_xss_attack"

\* C7 as claimed: every call that has returned a verdict, whatever its reason,
\* has appended exactly one line, the line of that verdict.
C7_OneRecordPerDecision ==
    \A p \in Procs :
        Returned(p) =>
            /\ Cardinality(LinesOf(results[p].timestamp)) = 1
            /\ \A i \in LinesOf(results[p].timestamp) : perf_log[i] = FormatLine(results[p])

\* the lines of the returned calls
C7_LinesOfReturned ==
    \A p \in Procs :
        Returned(p) =>
            IF results[p].reason = "analysis_error"
            THEN LinesOf(results[p].timestamp) = {}
            ELSE /\ Cardinality(LinesOf(results[p].timestamp)) = 1
                 /\ \A i \in LinesOf(results[p].timestamp) :
                        perf_log[i] = FormatLine(results[p])

\* the log only grows at its end
C7_AppendOnly ==
    /\ Len(perf_log') >= Len(perf_log)
    /\ \A i \in DOMAIN perf_log : perf_log'[i] = perf_log[i]

\* C7, amended: every call that has returned a verdict whose reason is not
\* analysis_error has appended exactly one line (timestamp, processing_time,
\* blocked flag of that verdict); a call that has returned analysis_error has
\* appended none; lines of the log are never modified or removed.
C7_OneRecordUnlessAnalysisError == []C7_LinesOfReturned /\ [][C7_AppendOnly]_vars

\* a call has returned a blocked verdict and its line is in the log, after the
\* line of an earlier call
C7_Witness ==
    \E p \in Procs :
        /\ Returned(p)
        /\ results[p].reason = "ddos_attack"
        /\ Len(perf_log) = 2
        /\ perf_log[2] = FormatLine(results[p])

\* C8: when the ddos detector has not triggered, the verdict is blocked with
\* reason sql_xss_attack if the sql/xss detector triggered, and not blocked
\* with reason allowed if it did not.
C8_InjectionOrAllowed ==
    \A p \in Procs :
        (Returned(p) /\ ~results[p].ddos_detected) =>
            IF results[p].sql_xss_detected
            THEN results[p].blocked /\ results[p].reason = "sql_xss_attack"
            ELSE ~results[p].blocked /\ results[p].reason = "allowed"

\* C9: extract_ddos_features returns 30 values and extract_sql_xss_features
\* returns 15, whatever fields the request record has and however long its
\* strings are.
C9_FeatureLengths ==
    /\ "ddos" \in xdone => Len(xddos) = 30
    /\ "sql_xss" \in xdone => Len(xsql) = 15

\* both extractors have been applied to a record in which uri and query_string
\* are very long and every other field is missing
C9_Witness ==
    /\ xdone = {"ddos", "sql_xss"}
    /\ DOMAIN xreq = {"uri", "query_string"}
    /\ xreq["uri"] = LongString /\ xreq["query_string"] = LongString
    /\ Len(xddos) = 30 /\ Len(xsql) = 15

\* C10: the performance log is at all times a sequence of whole lines, each
\* the line of one call, and no two of them of the same call.
C10_WholeRecords ==
    \A i \in DOMAIN perf_log :
        /\ perf_log[i].part = "line"
        /\ perf_log[i].blocked \in {"True", "False"}
        /\ perf_log[i].timestamp \in 1..clock
        /\ perf_log[i].processing_time >= 0
        /\ \A j \in DOMAIN perf_log : perf_log[j].timestamp = perf_log[i].timestamp => j = i

\* two calls overlapped: the call that started later appended first
C10_Witness ==
    /\ Len(perf_log) = 2
    /\ perf_log[1].timestamp > perf_log[2].timestamp

\* whether process p has called analyze_request and the call has evaluated the
\* detectors
InCall(p) == pc[p] \in {"close", "returned"}

\* C11: no call of analyze_request is made on a detector whose load_models
\* has not finished, and no call decides by itself whether a model is present:
\* no evaluation of a detector is left by the test of the model handle.
C11_LoadBarrier ==
    \A p \in Procs :
        InCall(p) =>
            /\ pc[p] # "start"
            /\ \A i \in DOMAIN evals[p] : evals[p][i].path # "no_model"


\* the part of a verdict that C12 speaks of
VerdictOf(r) ==
    [blocked |-> r.blocked, reason |-> r.reason, ddos_score |-> r.ddos_score,
     sql_xss_score |-> r.sql_xss_score]

\* no step changes the model handles or the tables of a constructed detector
C12_HandlesKept ==
    \A p \in Procs :
        pc[p] # "start" =>
            /\ ddos_model'[p] = ddos_model[p]
            /\ sql_xss_model'[p] = sql_xss_model[p]
            /\ norm'[p] = norm[p]

\* no step taken while a call is under way, by that call or by a call of the
\* other process, changes the verdict the call has formed
C12_VerdictKept ==
    \A p \in Procs :
        (InCall(p) /\ pc'[p] = pc[p]) => VerdictOf(results'[p]) = VerdictOf(results[p])

WithDefault(r, key, v) == IF key \in DOMAIN r THEN r ELSE (key :> v) @@ r

\* the request with every missing string field set to the empty string,
\* missing headers to no headers, a missing content_length to 0 and a missing
\* connection_count to n
Completed(r, n) ==
    LET r1 == WithDefault(r, "uri", "")
        r2 == WithDefault(r1, "query_string", "")
        r3 == WithDefault(r2, "post_data", "")
        r4 == WithDefault(r3, "user_agent", "")
        r5 == WithDefault(r4, "headers", {})
        r6 == WithDefault(r5, "content_length", 0)
    IN WithDefault(r6, "connection_count", n)

\* the first five volumetric features of a request that has all its fields
DerivedDdos(r) ==
    << Fixed(Len(r.uri)), Fixed(Len(r.user_agent)), Fixed(r.content_length),
       Fixed(Cardinality(r.headers)), Fixed(r.connection_count) >>

\* both extractors returned a vector of the declared length, and the vectors
\* are those of the request completed with n for a missing connection_count
MissingTreatedAs(n) ==
    /\ "ddos" \in xdone =>
          /\ Len(xddos) = DdosFeatureLen
          /\ SubSeq(xddos, 1, 5) = DerivedDdos(Completed(xreq, n))
    /\ "sql_xss" \in xdone =>
          /\ Len(xsql) = SqlXssFeatureLen
          /\ xsql = extract_sql_xss_features(Completed(xreq, n))
          /\ xsql[14] = Fixed(Len(Completed(xreq, n).query_string))
          /\ xsql[15] = Fixed(Len(Completed(xreq, n).post_data))

\* C13 as stated: an extractor returns a vector for every request record, a
\* missing string field or headers counting as empty and a missing
\* content_length or connection_count as zero.
C13_MissingAsEmptyOrZero == MissingTreatedAs(0)

\* C13: an extractor returns a vector for every request record, a missing
\* string field or headers counting as empty, a missing content_length as zero
\* and a missing connection_count as one.
C13_MissingAsDefault == MissingTreatedAs(1)

\* both extractors have been applied to a request without any field
C13_Witness ==
    /\ xreq = EmptyDict
    /\ xdone = {"ddos", "sql_xss"}
    /\ xddos[5] = Fixed(1)
    /\ xsql[1] = Fixed(2)


\* C14: the vector detect_sql_xss standardizes has as many elements as the
\* feature vector (15); its element for a feature x with constants (mean,
\* scale) is (x - mean) / scale when scale is not 0 and 0 when scale is 0, so
\* that no division by zero occurs; and with the tables of the detector,
\* whose scale at index 12 is 0, its element at index 12 (the 13th, the
\* suspicious-keyword indicator) is 0 for every request.
C14_Standardized ==
    "standardize" \in xdone =>
        /\ Len(xnorm) = Len(xsql)
        /\ Len(xnorm) = SqlXssFeatureLen
        /\ \A i \in DOMAIN xnorm :
              /\ xnorm[i].den # 0
              /\ sql_xss_scale[i] # 0 =>
                    xnorm[i] = [num |-> xsql[i] - sql_xss_mean[i],
                                den |-> sql_xss_scale[i]]
              /\ sql_xss_scale[i] = 0 => xnorm[i] = [num |-> 0, den |-> 1]
        /\ sql_xss_scale[13] = 0
        /\ xnorm[13].num = 0

\* a request without a suspicious keyword has been standardized: its
\* indicator is 0, different from the mean, and its 13th standardized element
\* is 0 while its first is a quotient
C14_Witness ==
    /\ "standardize" \in xdone
    /\ xsql[13] = Fixed(0)
    /\ xsql[13] # sql_xss_mean[13]
    /\ xnorm[13] = [num |-> 0, den |-> 1]
    /\ xnorm[1].num < 0


\* C15: a call of analyze_request evaluates each detector exactly once, the
\* volumetric one first and the injection one second, whether or not the
\* first triggered or failed; and the two scores of the verdict are the
\* scores those two evaluations returned.
C15_BothEvaluatedOnce ==
    \A p \in Procs :
        InCall(p) =>
            /\ Len(evals[p]) = 2
            /\ evals[p][1].detector = "ddos"
            /\ evals[p][2].detector = "sql_xss"
            /\ results[p].ddos_score = evals[p][1].outcome.score
            /\ results[p].sql_xss_score = evals[p][2].outcome.score

\* a call has returned in which the volumetric detector failed and so
\* triggered, and the injection detector was still scored and its score kept
C15_Witness ==
    \E p \in Procs :
        /\ Returned(p)
        /\ Len(evals[p]) = 2
        /\ evals[p][1].path = "error"
        /\ evals[p][1].outcome.triggered
        /\ evals[p][2].path = "scored"
        /\ evals[p][2].outcome.score = 100
        /\ results[p].sql_xss_score = 100
        /\ results[p].reason = "ddos_attack"


\* the configured threshold of a detector
ThresholdOf(detector) == IF detector = "ddos" THEN ddos_threshold ELSE sql_xss_threshold

\* C16: an evaluation in which the model scored reports triggered exactly
\* when the score of the model is strictly greater than the threshold of the
\* detector (0.5), so not when the two are equal, and returns the score of
\* the model as its score.
C16_StrictThreshold ==
    \A p \in Procs :
        \A i \in DOMAIN evals[p] :
            evals[p][i].path = "scored" =>
                /\ evals[p][i].outcome.triggered
                      <=> (evals[p][i].prediction > ThresholdOf(evals[p][i].detector))
                /\ evals[p][i].outcome.score = evals[p][i].prediction

\* a call in which both models scored exactly the threshold: neither detector
\* triggered, the scores are kept and the request is allowed
C16_Witness ==
    \E p \in Procs :
        /\ Returned(p)
        /\ Len(evals[p]) = 2
        /\ \A i \in {1, 2} :
              /\ evals[p][i].path = "scored"
              /\ evals[p][i].prediction = ThresholdOf(evals[p][i].detector)
              /\ ~evals[p][i].outcome.triggered
        /\ results[p].ddos_score = ddos_threshold
        /\ results[p].sql_xss_score = sql_xss_threshold
        /\ results[p].reason = "allowed"

\* C17: in every verdict analyze_request returns, blocked is true exactly
\* when the reason is not allowed; the reason ddos_attack comes with
\* ddos_detected; the reason sql_xss_attack comes with sql_xss_detected and
\* without ddos_detected; the reason allowed comes with neither flag.
C17_VerdictConsistent ==
    \A p \in Procs :
        Returned(p) =>
            /\ results[p].reason \in Reasons
            /\ results[p].blocked <=> (results[p].reason # "allowed")
            /\ results[p].reason = "ddos_attack" => results[p].ddos_detected
            /\ results[p].reason = "sql_xss_attack" =>
                  (results[p].sql_xss_detected /\ ~results[p].ddos_detected)
            /\ results[p].reason = "allowed" =>
                  (~results[p].ddos_detected /\ ~results[p].sql_xss_detected)

\* the two processes have returned verdicts of different reasons, one of them
\* for a request on which both detectors triggered
C17_Witness ==
    /\ Returned(1) /\ Returned(2)
    /\ results[1].reason = "ddos_attack"
    /\ results[1].ddos_detected /\ results[1].sql_xss_detected
    /\ results[2].reason = "sql_xss_attack"
    /\ results[2].sql_xss_detected /\ ~results[2].ddos_detected

=============================================================================
